---- MODULE Spec2Model ----
(***************************************************************************)
(* proxysql_exporter: layered configuration resolution (lookupConfig,      *)
(* lookupFlag) and persistence (configure) of src/proxysql_exporter.go,    *)
(* together with the start-up sequence of main.                            *)
(*                                                                         *)
(* Strings are TLA+ strings.  A Go interface{} value is a record           *)
(* [kind, s, b]: kind says which Go value it is, s carries a string        *)
(* payload and b a boolean payload.  An ini document is a function from    *)
(* <<section, key>> pairs to the raw string each key holds in memory       *)
(* (section "" is the default section, where bare top-level keys live).    *)
(***************************************************************************)
EXTENDS Integers, Sequences, FiniteSets, TLC

VARIABLES
    pc,           \* position of main: "start", "loaded", "flagged", "serving", "exited"
    flags,        \* flag.CommandLine's set flags (what flag.Visit visits): name -> value
    onConfigure,  \* os.Getenv("ON_CONFIGURE")
    envDSN,       \* os.Getenv("DATA_SOURCE_NAME")
    fileOk,       \* the file at *configPath exists and parses
    file,         \* the document held by the file at *configPath
    cfg,          \* the package variable cfg (type config)
    configureErr, \* what configure() returned: "notrun", "nil", "load", "write"
    exitCode,     \* -1 while running, else the code given to os.Exit
    out,          \* the messages emitted to the operator, in order
    server,       \* what NewExporter and RunServer were handed
    resolved,     \* number of lookupConfig calls main has made
    query         \* the last call made through the resolve interface

vars == <<pc, flags, onConfigure, envDSN, fileOk, file, cfg, configureErr,
          exitCode, out, server, resolved, query>>

(***************************************************************************)
(* Bounds of the model.                                                    *)
(***************************************************************************)
\* The flags passed on the command line and the keys present in the file are
\* together at most this many.
MaxInputs == 2

(***************************************************************************)
(* Go values.                                                              *)
(***************************************************************************)
Str(x) == [kind |-> "string", s |-> x, b |-> FALSE]
Bool(x) == [kind |-> "bool", s |-> "", b |-> x]
Nil == [kind |-> "nil", s |-> "", b |-> FALSE]
NilPtr == [kind |-> "nilptr", s |-> "", b |-> FALSE]
PtrTo(x) == [kind |-> "ptr", s |-> x, b |-> FALSE]
StructOf(tag) == [kind |-> "struct", s |-> tag, b |-> FALSE]
Panic == [kind |-> "panic", s |-> "", b |-> FALSE]

program == "proxysql_exporter"
defaultDataSource == "stats:stats@tcp(localhost:6032)/"

(***************************************************************************)
(* The Settings Schema: the struct types config, webConfig, collectConfig  *)
(* as reflection sees them (field order, ini tag, kind).                   *)
(***************************************************************************)
NoFields == <<>>

webConfig ==
    << [ini |-> "listen-address", kind |-> "string", fields |-> NoFields],
       [ini |-> "telemetry-path", kind |-> "string", fields |-> NoFields],
       [ini |-> "ssl-cert-file",  kind |-> "string", fields |-> NoFields],
       [ini |-> "ssl-key-file",   kind |-> "string", fields |-> NoFields],
       [ini |-> "auth-file",      kind |-> "ptr",    fields |-> NoFields] >>

collectConfig ==
    << [ini |-> "mysql_status",          kind |-> "bool", fields |-> NoFields],
       [ini |-> "mysql_connection_pool", kind |-> "bool", fields |-> NoFields] >>

config ==
    << [ini |-> "web",     kind |-> "struct", fields |-> webConfig],
       [ini |-> "collect", kind |-> "struct", fields |-> collectConfig],
       [ini |-> "dsn",     kind |-> "string", fields |-> NoFields] >>

\* The <<section, key>> of every leaf of the schema.
LeafKeys ==
    {<<"", config[i].ini>> : i \in {n \in 1..Len(config) : config[n].kind # "struct"}}
    \cup UNION {{<<config[i].ini, config[i].fields[j].ini>> :
                    j \in 1..Len(config[i].fields)} :
                i \in {n \in 1..Len(config) : config[n].kind = "struct"}}

\* The zero value of a field of the given kind (new(config)).
ZeroOf(f) ==
    IF f.kind = "string" THEN Str("")
    ELSE IF f.kind = "bool" THEN Bool(FALSE)
    ELSE NilPtr

ZeroConfig ==
    [i \in 1..Len(config) |->
        IF config[i].kind = "struct"
        THEN [j \in 1..Len(config[i].fields) |-> ZeroOf(config[i].fields[j])]
        ELSE ZeroOf(config[i])]

(***************************************************************************)
(* Go string helpers.                                                      *)
(***************************************************************************)
RECURSIVE IndexFrom(_, _, _)
IndexFrom(s, c, i) ==
    IF i > Len(s) THEN -1
    ELSE IF SubSeq(s, i, i) = c THEN i - 1
    ELSE IndexFrom(s, c, i + 1)

\* strings.Index(s, c) for a one-character c: 0-based, -1 when absent.
Index(s, c) == IndexFrom(s, c, 1)

\* s[from:to] and s[from:] of Go (0-based, to exclusive).
Slice(s, from, to) == IF to <= from THEN "" ELSE SubSeq(s, from + 1, to)
SliceFrom(s, from) == Slice(s, from, Len(s))

\* strconv.Quote on the strings of the model (none needs an escape).
Quote(s) == "\"" \o s \o "\""

\* fmt.Sprintf("%t", b)
FormatBool(b) == IF b THEN "true" ELSE "false"

\* fmt.Sprintf("%s.%s", section, key)
DottedName(section, key) == section \o "." \o key

(***************************************************************************)
(* gopkg.in/ini.v1 as the program uses it.                                 *)
(***************************************************************************)
TrueLiterals == {"1", "t", "T", "TRUE", "true", "True", "YES", "yes", "Yes", "y", "ON", "on", "On"}
FalseLiterals == {"0", "f", "F", "FALSE", "false", "False", "NO", "no", "No", "n", "OFF", "off", "Off"}

\* Section(section).Key(key).SetValue(v): the key is created when missing.
SetValue(doc, section, key, v) ==
    [k \in DOMAIN doc \cup {<<section, key>>} |->
        IF k = <<section, key>> THEN v ELSE doc[k]]

\* What MapTo leaves in one field: prev is the field's value before the call.
MapField(doc, section, f, prev) ==
    IF <<section, f.ini>> \notin DOMAIN doc THEN prev
    ELSE LET raw == doc[<<section, f.ini>>] IN
         IF f.kind = "string" THEN (IF Len(raw) > 0 THEN Str(raw) ELSE prev)
         ELSE IF f.kind = "ptr" THEN PtrTo(raw)
         ELSE IF f.kind = "bool" THEN
              (IF raw \in TrueLiterals THEN Bool(TRUE)
               ELSE IF raw \in FalseLiterals THEN Bool(FALSE)
               ELSE prev)
         ELSE prev

\* ini.MapTo(cfg, path) / iniCfg.MapTo(cfg) on a document that loaded.
MapTo(c, doc) ==
    [i \in 1..Len(config) |->
        IF config[i].kind = "struct"
        THEN [j \in 1..Len(config[i].fields) |->
                 MapField(doc, config[i].ini, config[i].fields[j], c[i][j])]
        ELSE MapField(doc, "", config[i], c[i])]

(***************************************************************************)
(* The flags registered with the flag package: lines 40-46 register the    *)
(* first six, and main's flag.Set calls (lines 81-83) name the three that  *)
(* the imported exporter_shared package registers.                         *)
(***************************************************************************)
StringFlags == {"web.listen-address", "web.telemetry-path",
                "web.ssl-cert-file", "web.ssl-key-file", "web.auth-file"}
BoolFlags == {"version", "collect.mysql_status", "collect.mysql_connection_pool"}
DefinedFlags == StringFlags \cup BoolFlags \cup {"config"}

FlagValues(name) ==
    IF name \in BoolFlags THEN {Bool(TRUE), Bool(FALSE)}
    ELSE IF name = "config" THEN {Str("/alt.conf")}
    ELSE {Str(""), Str("/flag")}

\* The value of a flag variable (*versionF, *listenAddressF, ...).
FlagVar(name, dflt) == IF name \in DOMAIN flags THEN flags[name] ELSE dflt

lookupFlag(name) ==
    IF name \in DOMAIN flags
    THEN [flagSet |-> TRUE,
          flagValue |-> IF flags[name].kind = "bool" THEN Bool(flags[name].b)
                        ELSE IF flags[name].kind = "string" THEN Str(flags[name].s)
                        ELSE Nil]
    ELSE [flagSet |-> FALSE, flagValue |-> Nil]

(***************************************************************************)
(* lookupConfig (lines 123-182).                                           *)
(***************************************************************************)
NotFound == [kind |-> "notfound", s |-> "", b |-> FALSE]

\* FieldResult with an empty string behind the pointer taken for an absent value.
FieldResultEmptyIsAbsent(v, defaultValue) ==
    IF v.kind \notin {"ptr", "nilptr"} THEN v
    ELSE IF v.kind = "nilptr" \/ v.s = "" THEN defaultValue
    ELSE Str(v.s)

\* Lines 169-177: what a matched field of a section yields.
FieldResult(v, defaultValue) ==
    IF v.kind \notin {"ptr", "nilptr"} THEN v
    ELSE IF v.kind = "nilptr" THEN defaultValue
    ELSE Str(v.s)

\* Lines 162-178: the loop over the fields of section field i, from field j;
\* NotFound when the loop ends without returning.
RECURSIVE ScanSection(_, _, _, _)
ScanSection(i, j, key, defaultValue) ==
    IF j > Len(config[i].fields) THEN NotFound
    ELSE IF config[i].fields[j].ini # key
         THEN ScanSection(i, j + 1, key, defaultValue)
    ELSE FieldResult(cfg[i][j], defaultValue)

\* v.Interface() of top-level field i.
FieldInterface(i) ==
    IF config[i].kind = "struct" THEN StructOf(config[i].ini) ELSE cfg[i]

\* Lines 140-181: the loop over the top-level fields, from field i.
RECURSIVE ScanFields(_, _, _, _)
ScanFields(i, section, key, defaultValue) ==
    IF i > Len(config) THEN defaultValue
    ELSE LET iniName == config[i].ini
             matched == IF section = "" THEN iniName = key ELSE iniName = section
         IN  IF ~matched THEN ScanFields(i + 1, section, key, defaultValue)
             ELSE IF section = "" THEN FieldInterface(i)
             \* st.NumField() panics when the matched field is not a struct
             ELSE IF config[i].kind # "struct" THEN Panic
             ELSE LET r == ScanSection(i, 1, key, defaultValue)
                  IN  IF r = NotFound
                      THEN ScanFields(i + 1, section, key, defaultValue)
                      ELSE r

\* Lines 129-138: the section part of a name.
SectionOf(name) ==
    LET i == Index(name, ".") IN IF i > 0 THEN Slice(name, 0, i) ELSE ""

\* Lines 129-138: the key part of a name.
KeyOf(name) ==
    LET i == Index(name, ".")
    IN  IF i > 0
        THEN (IF Len(name) > i + 1 THEN SliceFrom(name, i + 1) ELSE "")
        ELSE name

\* lookupConfig consulting the document before the flags.
lookupConfigDocumentFirst(name, defaultValue) ==
    LET r == ScanFields(1, SectionOf(name), KeyOf(name), NotFound)
        fl == lookupFlag(name)
    IN  IF r # NotFound THEN r
        ELSE IF fl.flagSet THEN fl.flagValue
        ELSE defaultValue

lookupConfig(name, defaultValue) ==
    LET fl == lookupFlag(name)
    IN  IF fl.flagSet THEN fl.flagValue
        ELSE ScanFields(1, SectionOf(name), KeyOf(name), defaultValue)

(***************************************************************************)
(* configure (lines 206-275).                                              *)
(***************************************************************************)
\* Lines 244-262: one leaf field of the traversal.
WriteLeaf(doc, section, f) ==
    LET fl == lookupFlag(DottedName(section, f.ini))
    IN  IF ~fl.flagSet THEN doc
        ELSE IF f.kind = "bool"
             THEN SetValue(doc, section, f.ini, FormatBool(fl.flagValue.b))
        ELSE IF f.kind = "string"
             THEN SetValue(doc, section, f.ini, Quote(fl.flagValue.s))
        ELSE doc

\* Lines 228-263: the fields of one item, from field j on.
RECURSIVE WriteFields(_, _, _, _)
WriteFields(doc, section, fields, j) ==
    IF j > Len(fields) THEN doc
    ELSE WriteFields(IF fields[j].kind = "struct" THEN doc
                     ELSE WriteLeaf(doc, section, fields[j]),
                     section, fields, j + 1)

\* Lines 234-241: the items the fields of one item append to the queue.
RECURSIVE Enqueued(_, _, _)
Enqueued(section, fields, j) ==
    IF j > Len(fields) THEN <<>>
    ELSE (IF fields[j].kind = "struct" /\ section = ""
          THEN << [section |-> fields[j].ini, fields |-> fields[j].fields] >>
          ELSE <<>>) \o Enqueued(section, fields, j + 1)

\* Lines 227-264: the breadth-first traversal, from item i on.
RECURSIVE Traverse(_, _, _)
Traverse(doc, items, i) ==
    IF i > Len(items) THEN doc
    ELSE Traverse(WriteFields(doc, items[i].section, items[i].fields, 1),
                  items \o Enqueued(items[i].section, items[i].fields, 1),
                  i + 1)

\* ApplyEnv without its guard on the empty environment value.
ApplyEnvUnguarded(doc) == SetValue(doc, "", "dsn", Quote(envDSN))

\* Lines 266-268: the environment's data source, written last.
ApplyEnv(doc) ==
    IF envDSN # "" THEN SetValue(doc, "", "dsn", Quote(envDSN)) ELSE doc

\* Merged rebuilding the document from the schema's keys alone.
MergedSchemaOnly(iniCfg) ==
    LET full == ApplyEnv(Traverse(iniCfg, << [section |-> "", fields |-> config] >>, 1))
    IN  [k \in DOMAIN full \cap LeafKeys |-> full[k]]

\* The document configure hands to SaveTo, given the one ini.Load returned.
Merged(iniCfg) ==
    ApplyEnv(Traverse(iniCfg, << [section |-> "", fields |-> config] >>, 1))

(***************************************************************************)
(* The inputs of a run: command line, environment, file.                   *)
(***************************************************************************)
\* Keys a file may hold that the schema does not know.
ForeignKeys == {<<"web", "extra">>, <<"extra", "k">>}

DocKeys == LeafKeys \cup ForeignKeys

RawValues(k) ==
    IF k[1] = "collect" THEN {"0", "true"}
    ELSE IF k = <<"", "dsn">> THEN {"", "doc:doc@tcp(db:6032)/"}
    ELSE IF k \in ForeignKeys THEN {"x"}
    ELSE {"", "/doc"}

EmptyDoc == [k \in {} |-> ""]

DocsOver(S) == {d \in [S -> UNION {RawValues(k) : k \in S}] :
                   \A k \in S : d[k] \in RawValues(k)}

Docs(n) == UNION {DocsOver(S) : S \in {T \in SUBSET DocKeys : Cardinality(T) <= n}}

FlagSetsOver(S) == {f \in [S -> UNION {FlagValues(k) : k \in S}] :
                       \A k \in S : f[k] \in FlagValues(k)}

FlagSets == UNION {FlagSetsOver(S) :
                      S \in {T \in SUBSET DefinedFlags : Cardinality(T) <= MaxInputs}}

EnvDataSources == {"", "env:env@tcp(db:6032)/"}
EnvOnConfigure == {"", "0", "1"}

NoServer == [started |-> FALSE, dsn |-> "", mysqlStatus |-> FALSE,
             mysqlConnectionPool |-> FALSE, listenAddress |-> "",
             telemetryPath |-> ""]

NoQuery == [asked |-> FALSE, name |-> "", defaultValue |-> Nil, result |-> Nil]

Init ==
    /\ pc = "start"
    /\ flags \in FlagSets
    /\ onConfigure \in EnvOnConfigure
    /\ envDSN \in EnvDataSources
    /\ fileOk \in BOOLEAN
    /\ file \in Docs(MaxInputs - Cardinality(DOMAIN flags))
    /\ (~fileOk => file = EmptyDoc)
    /\ cfg = ZeroConfig
    /\ configureErr = "notrun"
    /\ exitCode = -1
    /\ out = <<>>
    /\ server = NoServer
    /\ resolved = 0
    /\ query = NoQuery

(***************************************************************************)
(* main (lines 51-99).                                                     *)
(***************************************************************************)
\* Mode without the check of ON_CONFIGURE.
ModeIgnoringTrigger ==
    IF FlagVar("version", Bool(FALSE)).b THEN "version" ELSE "serve"

\* Lines 62-75: which of the three paths main takes after flag.Parse.
Mode ==
    IF FlagVar("version", Bool(FALSE)).b THEN "version"
    ELSE IF onConfigure = "1" THEN "configure"
    ELSE "serve"

\* Lines 62-65.
PrintVersion ==
    /\ pc = "start"
    /\ Mode = "version"
    /\ out' = Append(out, "version")
    /\ exitCode' = 0
    /\ pc' = "exited"
    /\ UNCHANGED <<flags, onConfigure, envDSN, fileOk, file, cfg, configureErr,
                   server, resolved, query>>

\* Lines 67-73 with configure (lines 206-275); writeOk: SaveTo succeeds.
Configure(writeOk) ==
    /\ pc = "start"
    /\ Mode = "configure"
    /\ cfg' = IF fileOk THEN MapTo(cfg, file) ELSE cfg
    /\ configureErr' = IF ~fileOk THEN "load" ELSE IF writeOk THEN "nil" ELSE "write"
    /\ file' = IF fileOk /\ writeOk THEN Merged(file) ELSE file
    /\ exitCode' = IF fileOk /\ writeOk THEN 0 ELSE 1
    /\ pc' = "exited"
    /\ UNCHANGED <<flags, onConfigure, envDSN, fileOk, out, server, resolved, query>>

\* Lines 75-78.
LoadConfig ==
    /\ pc = "start"
    /\ Mode = "serve"
    /\ IF fileOk
       THEN /\ cfg' = MapTo(cfg, file)
            /\ pc' = "loaded"
            /\ UNCHANGED <<out, exitCode>>
       ELSE /\ out' = Append(out, "fatal: Load config file failed")
            /\ exitCode' = 1
            /\ pc' = "exited"
            /\ UNCHANGED cfg
    /\ UNCHANGED <<flags, onConfigure, envDSN, fileOk, file, configureErr,
                   server, resolved, query>>

\* flag.Set(name, value) on a registered string flag.
FlagSet(fl, name, value) ==
    [k \in DOMAIN fl \cup {name} |-> IF k = name THEN Str(value) ELSE fl[k]]

\* Lines 81-83.  The three lookups read three different names, so each is
\* unaffected by the flag.Set calls before it.
SetSharedFlags ==
    /\ pc = "loaded"
    /\ flags' = FlagSet(FlagSet(FlagSet(flags,
                    "web.ssl-cert-file", lookupConfig("web.ssl-cert-file", Str("")).s),
                    "web.ssl-key-file", lookupConfig("web.ssl-key-file", Str("")).s),
                    "web.auth-file",
                    lookupConfig("web.auth-file", Str("/opt/ss/ssm-client/ssm.yml")).s)
    /\ resolved' = resolved + 3
    /\ pc' = "flagged"
    /\ UNCHANGED <<onConfigure, envDSN, fileOk, file, cfg, configureErr, exitCode,
                   out, server, query>>

\* DataSource consulting the configuration before the environment.
DataSourceConfigFirst ==
    LET fromConfig == lookupConfig("dsn", Str("")).s
        dsn == IF fromConfig = "" THEN envDSN ELSE fromConfig
    IN  IF dsn = "" THEN defaultDataSource ELSE dsn

\* Lines 85-91: the data source handed to NewExporter.
DataSource ==
    LET fromEnv == envDSN
        dsn == IF fromEnv = "" THEN lookupConfig("dsn", Str("")).s ELSE fromEnv
    IN  IF dsn = "" THEN defaultDataSource ELSE dsn

\* Lines 85-98.
StartServer ==
    /\ pc = "flagged"
    /\ server' =
         [started |-> TRUE,
          dsn |-> DataSource,
          mysqlStatus |->
              lookupConfig("collect.mysql_status",
                           FlagVar("collect.mysql_status", Bool(TRUE))).b,
          mysqlConnectionPool |->
              lookupConfig("collect.mysql_connection_pool",
                           FlagVar("collect.mysql_connection_pool", Bool(TRUE))).b,
          listenAddress |->
              lookupConfig("web.listen-address",
                           FlagVar("web.listen-address", Str(":42004"))).s,
          telemetryPath |->
              lookupConfig("web.telemetry-path",
                           FlagVar("web.telemetry-path", Str("/metrics"))).s]
    /\ out' = Append(out, "info: Starting")
    /\ resolved' = resolved + 4 + (IF envDSN = "" THEN 1 ELSE 0)
    /\ pc' = "serving"
    /\ UNCHANGED <<flags, onConfigure, envDSN, fileOk, file, cfg, configureErr,
                   exitCode, query>>

Next ==
    \/ PrintVersion
    \/ \E writeOk \in BOOLEAN : Configure(writeOk)
    \/ LoadConfig
    \/ SetSharedFlags
    \/ StartServer

Spec == Init /\ [][Next]_vars

(***************************************************************************)
(* The resolve interface: lookupConfig called with any name and default    *)
(* on the loaded configuration.  query records one call: lookupConfig      *)
(* changes no state, so a later call sees what the recorded one saw.       *)
(***************************************************************************)
QueryNames ==
    {"dsn", "web.listen-address", "web.telemetry-path", "web.ssl-cert-file",
     "web.ssl-key-file", "web.auth-file", "collect.mysql_status",
     "collect.mysql_connection_pool",
     "web", "collect", "dsn.x", "web.", ".dsn", "", "extra.k", "web.extra",
     "web.listen-address.x", "version", "config"}

QueryDefaults == {Str(""), Str("/default"), Bool(TRUE), Bool(FALSE)}

Resolve(name, defaultValue) ==
    /\ pc = "loaded"
    /\ ~query.asked
    /\ query' = [asked |-> TRUE, name |-> name, defaultValue |-> defaultValue,
                 result |-> lookupConfig(name, defaultValue)]
    /\ UNCHANGED <<pc, flags, onConfigure, envDSN, fileOk, file, cfg, configureErr,
                   exitCode, out, server, resolved>>

InitLookup == Init /\ onConfigure = "" /\ envDSN = ""

NextLookup ==
    \/ LoadConfig
    \/ \E name \in QueryNames, defaultValue \in QueryDefaults :
           Resolve(name, defaultValue)

SpecLookup == InitLookup /\ [][NextLookup]_vars

(***************************************************************************)
(* The claims.                                                             *)
(***************************************************************************)
\* The dotted key of a leaf: section.name, or the bare name at top level.
LeafName(k) == IF k[1] = "" THEN k[2] ELSE k[1] \o "." \o k[2]

LeafNames == {LeafName(k) : k \in LeafKeys}

LeafKeyOf(name) == CHOOSE k \in LeafKeys : LeafName(k) = name

\* The typed value a document holds for a leaf it contains.
DocValue(doc, k) ==
    IF k[1] = "collect" THEN Bool(doc[k] \in TrueLiterals) ELSE Str(doc[k])

\* The text the commit is to leave for an override's value.
Serialized(v) == IF v.kind = "bool" THEN FormatBool(v.b) ELSE Quote(v.s)

VersionSet == "version" \in DOMAIN flags /\ flags["version"].b

\* C1: a resolve call for a name with an Override Set entry returns that
\* entry's value, whatever the document holds for the name and whatever the
\* default is.
C1_OverrideWins ==
    (query.asked /\ query.name \in DOMAIN flags)
        => query.result = flags[query.name]

C1_Witness ==
    /\ query.asked
    /\ query.name = "web.listen-address"
    /\ query.name \in DOMAIN flags
    /\ <<"web", "listen-address">> \in DOMAIN file
    /\ file[<<"web", "listen-address">>] = "/doc"
    /\ query.defaultValue = Str("/default")
    /\ query.result = Str("/flag")

\* C2: a resolve call for a schema leaf with no Override Set entry returns the
\* document's value when the document contains the leaf's key, and the
\* default when it does not.
C2_DocumentThenDefault ==
    (query.asked /\ query.name \in LeafNames /\ query.name \notin DOMAIN flags)
        => query.result =
             IF LeafKeyOf(query.name) \in DOMAIN file
             THEN DocValue(file, LeafKeyOf(query.name))
             ELSE query.defaultValue

\* C3: a resolve call for a name that is no schema leaf and has no Override
\* Set entry returns the default unchanged and raises no error.
C3_UnknownKeyYieldsDefault ==
    (query.asked /\ query.name \notin LeafNames /\ query.name \notin DOMAIN flags)
        => query.result = query.defaultValue

\* C4: after a successful commit, every schema leaf with an Override Set entry
\* under its dotted key holds the override's value in the document.
C4_CommitWritesEveryOverride ==
    configureErr = "nil"
        => \A k \in LeafKeys :
              LeafName(k) \in DOMAIN flags
                 => (k \in DOMAIN file /\ file[k] = Serialized(flags[LeafName(k)]))

\* The keys a commit may change.
Touched ==
    {k \in LeafKeys : LeafName(k) \in DOMAIN flags}
    \cup (IF envDSN # "" THEN {<<"", "dsn">>} ELSE {})

\* C5: a commit changes no key but those with an Override Set entry and, with
\* a non-empty DATA_SOURCE_NAME, dsn: every other key keeps its value, no
\* other key is added, a commit with no override and no environment value
\* writes the document it loaded, and a commit whose load fails writes nothing.
C5_CommitFrame ==
    [][ /\ \A k \in DOMAIN file \ Touched : k \in DOMAIN file' /\ file'[k] = file[k]
        /\ \A k \in DOMAIN file' \ DOMAIN file : k \in Touched
        /\ (DOMAIN flags = {} /\ envDSN = "") => file' = file
        /\ configureErr' = "load" => file' = file ]_vars

C5_Witness ==
    /\ configureErr = "nil"
    /\ "web.listen-address" \in DOMAIN flags
    /\ <<"web", "listen-address">> \in DOMAIN file
    /\ file[<<"web", "listen-address">>] = Quote(flags["web.listen-address"].s)
    /\ <<"extra", "k">> \in DOMAIN file
    /\ file[<<"extra", "k">>] = "x"

C7_Original ==
    /\ server.started => (~VersionSet /\ onConfigure # "1" /\ fileOk)
    /\ onConfigure = "1" => ~server.started
    /\ (onConfigure = "1" /\ pc = "exited")
          => /\ configureErr # "notrun"
             /\ exitCode = (IF configureErr = "nil" THEN 0 ELSE 1)
    /\ (pc = "exited" /\ ~VersionSet /\ onConfigure # "1" /\ ~fileOk)
          => (exitCode # 0 /\ resolved = 0)

\* C7 amended: as stated, but the commit runs when the commit trigger is
\* present and the version switch is not set.
C7_ModeSelection ==
    /\ server.started => (~VersionSet /\ onConfigure # "1" /\ fileOk)
    /\ onConfigure = "1" => ~server.started
    /\ (onConfigure = "1" /\ ~VersionSet /\ pc = "exited")
          => /\ configureErr # "notrun"
             /\ exitCode = (IF configureErr = "nil" THEN 0 ELSE 1)
             /\ (configureErr = "load") = ~fileOk
    /\ (pc = "exited" /\ ~VersionSet /\ onConfigure # "1" /\ ~fileOk)
          => (exitCode # 0 /\ resolved = 0)

C7_Witness ==
    /\ pc = "exited"
    /\ onConfigure = "1"
    /\ ~VersionSet
    /\ configureErr = "write"
    /\ exitCode = 1
    /\ ~server.started

\* C8: a run that ended in a fatal configuration failure has emitted a
\* message to the operator.
C8_FatalFailuresAreReported ==
    (pc = "exited" /\ exitCode # 0)
        => \E i \in 1..Len(out) : out[i] = "fatal: Load config file failed"

\* C9: a successful commit with a non-empty DATA_SOURCE_NAME leaves the
\* environment value, quoted, at dsn; with an empty one it leaves dsn as the
\* loaded document had it.
C9_EnvironmentWrittenLast ==
    [][ (configureErr = "notrun" /\ configureErr' = "nil")
          => IF envDSN # ""
             THEN /\ <<"", "dsn">> \in DOMAIN file'
                  /\ file'[<<"", "dsn">>] = Quote(envDSN)
             ELSE /\ (<<"", "dsn">> \in DOMAIN file') = (<<"", "dsn">> \in DOMAIN file)
                  /\ <<"", "dsn">> \in DOMAIN file
                        => file'[<<"", "dsn">>] = file[<<"", "dsn">>] ]_vars

C9_Witness ==
    /\ configureErr = "nil"
    /\ envDSN = "env:env@tcp(db:6032)/"
    /\ <<"", "dsn">> \in DOMAIN file
    /\ file[<<"", "dsn">>] = "\"env:env@tcp(db:6032)/\""

\* C10: the data source the server is started with is the environment value
\* when that is non-empty, otherwise the resolved dsn when that is non-empty,
\* otherwise the compiled-in default; it is never empty.
C10_DataSourceChain ==
    server.started
        => /\ server.dsn # ""
           /\ server.dsn =
                IF envDSN # "" THEN envDSN
                ELSE IF "dsn" \in DOMAIN flags
                     THEN (IF flags["dsn"].s # "" THEN flags["dsn"].s
                           ELSE defaultDataSource)
                ELSE IF <<"", "dsn">> \in DOMAIN file /\ file[<<"", "dsn">>] # ""
                     THEN file[<<"", "dsn">>]
                ELSE defaultDataSource

C10_Witness ==
    /\ server.started
    /\ envDSN = "env:env@tcp(db:6032)/"
    /\ <<"", "dsn">> \in DOMAIN file
    /\ file[<<"", "dsn">>] = "doc:doc@tcp(db:6032)/"
    /\ server.dsn = envDSN

====
